---- MODULE Spec2Model ----
(***************************************************************************)
(* Model of pencall (src/src/lib.rs): the allocation store, the            *)
(* orchestrator (register_allocation, activate) and the two release        *)
(* schedulers, the top-level run_allocation_simulation and the one in      *)
(* `pub mod pencall` that examples/basic.rs uses.                          *)
(*                                                                         *)
(* Wall-clock time is not modelled.  A tokio sleep is a suspension point   *)
(* that eventually resumes; the test `next_release > now` can go either    *)
(* way (start_time is an input, and any amount of time may pass between    *)
(* two reads of the clock), so it is a nondeterministic choice.            *)
(* next_release is kept as the number of times line 243 / 415 assigned it  *)
(* (0 = still req.start_time).  last_release_at is not kept.               *)
(*                                                                         *)
(* A scheduler task acquires the store lock in one action and runs the     *)
(* section under it, up to the drop of the guard, in the next.  An         *)
(* orchestrator call never awaits while it holds the lock: from the        *)
(* acquisition to its return it is one action.  Every other .await         *)
(* separates two actions.                                                  *)
(***************************************************************************)
EXTENDS Integers, Sequences, FiniteSets, TLC

\* ---------------------------------------------------------------- bounds
\* Largest value of the machine word.  The code uses u64; the model scales
\* the word down so that saturation is within reach of the inputs.
U64_MAX == 63
\* the requested_units of a small valid request is drawn from 1..MaxUnits
MaxUnits == 2
\* initial_release is drawn from None and Some(0..MaxInit)
MaxInit == 2
\* cap_units is drawn from None and Some(0..MaxCap)
MaxCap == 1
\* number of delivery failures the provider may produce for one allocation
MaxFailures == 2

\* ------------------------------------------------- values of the example
ExampleUnits == 16
ExampleInitial == 1
ExampleInterval == 2
ExampleCap == 32

\* ------------------------------------------------------------ data types
Ids == {"demo1"}

None == [some |-> FALSE, val |-> 0]
Some(n) == [some |-> TRUE, val |-> n]
unwrap_or(o, d) == IF o.some THEN o.val ELSE d

Min(a, b) == IF a < b THEN a ELSE b
Max(a, b) == IF a > b THEN a ELSE b

saturating_sub(a, b) == IF a > b THEN a - b ELSE 0
saturating_add(a, b) == IF a + b > U64_MAX THEN U64_MAX ELSE a + b
saturating_mul(a, b) == IF a * b > U64_MAX THEN U64_MAX ELSE a * b

\* the request of examples/basic.rs
ExampleRequest(id) ==
    [id |-> id,
     requested_units |-> ExampleUnits,
     initial_release |-> Some(ExampleInitial),
     doubling_interval_seconds |-> ExampleInterval,
     cap_units |-> Some(ExampleCap)]

\* the requests a caller may pass to register_allocation (start_time is a
\* point of the wall clock and is not kept; with the clock left out, an
\* interval is only ever tested for being 0): the small valid ones, the one
\* of the example, and the two ways of being invalid
AllocationRequest ==
    [id : Ids,
     requested_units : 1..MaxUnits,
     initial_release : {None} \cup {Some(n) : n \in 0..MaxInit},
     doubling_interval_seconds : {ExampleInterval},
     cap_units : {None} \cup {Some(n) : n \in 0..MaxCap}]
    \cup {ExampleRequest(id) : id \in Ids}
    \cup {[ExampleRequest(id) EXCEPT !.requested_units = 0] : id \in Ids}
    \cup {[ExampleRequest(id) EXCEPT !.doubling_interval_seconds = 0] : id \in Ids}

Pending == [tag |-> "Pending", released |-> 0]
Active(n) == [tag |-> "Active", released |-> n]
Completed == [tag |-> "Completed", released |-> 0]
Cancelled == [tag |-> "Cancelled", released |-> 0]

EmptyMap == [x \in {} |-> x]
insert(map, k, v) == [x \in DOMAIN map \cup {k} |-> IF x = k THEN v ELSE map[x]]

\* tokio::sync::RwLock: free, or held through a guard
Unlocked == [mode |-> "free", holder |-> "none"]
ReadGuard(id) == [mode |-> "read", holder |-> id]
WriteGuard(id) == [mode |-> "write", holder |-> id]

\* (the guard is leaked: the lock stays held)
drop_forgotten(guard) == guard

\* the guard goes out of scope, or drop(map) is called: the lock is free
drop(guard) == Unlocked

VARIABLES
    impl,     \* "top": crate-level Pencall; "ns": pencall::Pencall
    store,    \* Store.allocations: id -> [req, status]
    sched,    \* the spawned scheduler tasks: id -> locals and position
    spawned,  \* id -> number of tokio::spawn calls made for it
    events,   \* id -> the ReleaseEvents handed to provider.deliver, in order
    active_writes, \* id -> the released values of the Active statuses
              \* inserted into the store, in order
    last,     \* the most recent orchestrator call and what it returned
    cancelled_at, \* id -> the number of delivery calls that had been issued
              \* when its status was first set to Cancelled
    lock      \* the RwLock of Store.allocations: Unlocked, or the guard a
              \* scheduler task holds

vars == <<impl, store, sched, spawned, events, active_writes, last, cancelled_at, lock>>

Init ==
    /\ impl \in {"top", "ns"}
    /\ store = EmptyMap
    /\ sched = EmptyMap
    /\ spawned = [id \in Ids |-> 0]
    /\ events = [id \in Ids |-> <<>>]
    /\ active_writes = [id \in Ids |-> <<>>]
    /\ last = [op |-> "none", id |-> "none", policy_ok |-> TRUE, valid |-> TRUE,
               result |-> "none"]
    /\ cancelled_at = EmptyMap
    /\ lock = Unlocked

\* ------------------------------------------------------- the orchestrator
\* (no test for an identifier that is already registered)
register_result_no_duplicate_test(req, policy_ok) ==
    IF ~policy_ok THEN "Unauthorized"
    ELSE IF req.requested_units = 0 THEN "InvalidArgs"
    ELSE IF req.doubling_interval_seconds = 0 THEN "InvalidArgs"
    ELSE "Ok"

\* (the request is validated before the policy check is consulted)
register_result_validation_first(req, policy_ok) ==
    IF req.requested_units = 0 THEN "InvalidArgs"
    ELSE IF req.doubling_interval_seconds = 0 THEN "InvalidArgs"
    ELSE IF ~policy_ok THEN "Unauthorized"
    ELSE IF req.id \in DOMAIN store THEN "InvalidArgs"
    ELSE "Ok"

register_result(req, policy_ok) ==
    IF ~policy_ok THEN "Unauthorized"
    ELSE IF req.requested_units = 0 THEN "InvalidArgs"
    ELSE IF req.doubling_interval_seconds = 0 THEN "InvalidArgs"
    ELSE IF req.id \in DOMAIN store THEN "InvalidArgs"
    ELSE "Ok"

\* "Basic validation": what the two tests of the request accept
valid_request(req) ==
    req.requested_units # 0 /\ req.doubling_interval_seconds # 0

register_allocation(req, policy_ok) ==
    /\ (policy_ok /\ valid_request(req)) => lock = Unlocked
    /\ lock' = IF policy_ok /\ valid_request(req) THEN drop(WriteGuard(req.id))
               ELSE lock
    /\ last' = [op |-> "register", id |-> req.id, policy_ok |-> policy_ok,
                valid |-> valid_request(req),
                result |-> register_result(req, policy_ok)]
    /\ IF register_result(req, policy_ok) = "Ok"
         THEN store' = insert(store, req.id, [req |-> req, status |-> Pending])
         ELSE store' = store
    /\ UNCHANGED <<impl, cancelled_at, sched, spawned, events, active_writes>>

\* (any registered allocation can be activated, whatever its status)
activate_result_any_status(id) ==
    IF id \notin DOMAIN store THEN "InvalidArgs" ELSE "Ok"

activate_result(id) ==
    IF id \notin DOMAIN store THEN "InvalidArgs"
    ELSE IF store[id].status.tag # "Pending" THEN "InvalidArgs"
    ELSE "Ok"

\* (the status at activation ignores initial_release)
initial_status_zero(req) == Active(0)

initial_status(req) == Active(unwrap_or(req.initial_release, 0))

\* the locals of run_allocation_simulation before its loop
new_task(req) ==
    [req |-> req,
     pc |-> "loop",
     released_total |-> unwrap_or(req.initial_release, 0),
     next_release |-> 0,
     current_chunk |-> Max(1, unwrap_or(req.initial_release, 1)),
     cap |-> unwrap_or(req.cap_units, U64_MAX),
     units |-> 0,
     outcome |-> "running"]

activate(id) ==
    /\ lock = Unlocked
    /\ lock' = drop(WriteGuard(id))
    /\ last' = [op |-> "activate", id |-> id, policy_ok |-> TRUE, valid |-> TRUE,
                result |-> activate_result(id)]
    /\ IF activate_result(id) = "Ok"
         THEN /\ store' = insert(store, id,
                     [req |-> store[id].req,
                      status |-> initial_status(store[id].req)])
              /\ sched' = insert(sched, id, new_task(store[id].req))
              /\ spawned' = [spawned EXCEPT ![id] = @ + 1]
              /\ active_writes' = [active_writes EXCEPT ![id] =
                     Append(@, initial_status(store[id].req).released)]
         ELSE UNCHANGED <<store, sched, spawned, active_writes>>
    /\ UNCHANGED <<impl, cancelled_at, events>>

\* ------------------------------------------------ run_allocation_simulation
\* The positions (pc) of a scheduler task:
\*   "loop"        top of the loop, before the clock is read
\*   "sleeping"    suspended in tokio::time::sleep until next_release
\*   "check"       past the wait, before the tick is computed (top level:
\*                 waiting for the read lock, or holding it)
\*   "complete"    allowable_release was 0, waiting for the write lock or
\*                 holding it
\*   "delivering"  suspended in provider.deliver
\*   "write"       delivery succeeded, waiting for the write lock or holding
\*                 it
\*   "backoff"     delivery failed, suspended in the 60 s sleep
\*   "done"        the task has returned (see outcome)
\* The field units is the local allowable_release of the current tick.
Task(id) == sched[id]
Running(id, pc) == id \in DOMAIN sched /\ sched[id].pc = pc

set_task(id, t) == sched' = [sched EXCEPT ![id] = t]

possible_release(t) ==
    Min(t.current_chunk, saturating_sub(t.req.requested_units, t.released_total))
allowable_release(t) ==
    Min(possible_release(t), saturating_sub(t.cap, t.released_total))

\* (the chunk grows by one unit instead of doubling)
advance_linear(t) ==
    [t EXCEPT !.current_chunk = saturating_add(t.current_chunk, 1),
              !.next_release = t.next_release + 1,
              !.pc = "loop"]

\* "Prepare next tick": double the chunk, move next_release
advance(t) ==
    [t EXCEPT !.current_chunk = saturating_mul(t.current_chunk, 2),
              !.next_release = t.next_release + 1,
              !.pc = "loop"]

Failures(id) == Cardinality({i \in DOMAIN events[id] : events[id][i].result = "err"})

\* next_release > now: the task suspends itself
sim_sleep(id) ==
    /\ Running(id, "loop")
    /\ set_task(id, [Task(id) EXCEPT !.pc = "sleeping"])
    /\ UNCHANGED <<impl, cancelled_at, lock, store, spawned, events, active_writes, last>>

\* next_release <= now: no wait
sim_no_sleep(id) ==
    /\ Running(id, "loop")
    /\ set_task(id, [Task(id) EXCEPT !.pc = "check"])
    /\ UNCHANGED <<impl, cancelled_at, lock, store, spawned, events, active_writes, last>>

\* the sleep is over
sim_wake(id) ==
    /\ Running(id, "sleeping")
    /\ set_task(id, [Task(id) EXCEPT !.pc = "check"])
    /\ UNCHANGED <<impl, cancelled_at, lock, store, spawned, events, active_writes, last>>

\* (a tick that finds nothing to release starts over instead of returning)
begin_tick_no_return(id) ==
    IF allowable_release(Task(id)) = 0
      THEN /\ set_task(id, [Task(id) EXCEPT !.pc = "loop"])
           /\ UNCHANGED events
      ELSE /\ set_task(id, [Task(id) EXCEPT !.pc = "delivering",
                                            !.units = allowable_release(Task(id))])
           /\ events' = [events EXCEPT ![id] =
                  Append(@, [units |-> allowable_release(Task(id)),
                             result |-> "pending",
                             total |-> Task(id).released_total])]

\* (a tick that could still release one unit is taken for the last one)
begin_tick_done_early(id) ==
    IF allowable_release(Task(id)) <= 1
      THEN /\ set_task(id, [Task(id) EXCEPT !.pc = "complete", !.units = 0])
           /\ UNCHANGED events
      ELSE /\ set_task(id, [Task(id) EXCEPT !.pc = "delivering",
                                            !.units = allowable_release(Task(id))])
           /\ events' = [events EXCEPT ![id] =
                  Append(@, [units |-> allowable_release(Task(id)),
                             result |-> "pending",
                             total |-> Task(id).released_total])]

\* the tick after the wait: compute allowable_release; either go for the
\* write lock to mark Completed, or build the event and call the provider
begin_tick(id) ==
    IF allowable_release(Task(id)) = 0
      THEN /\ set_task(id, [Task(id) EXCEPT !.pc = "complete", !.units = 0])
           /\ UNCHANGED events
      ELSE /\ set_task(id, [Task(id) EXCEPT !.pc = "delivering",
                                            !.units = allowable_release(Task(id))])
           /\ events' = [events EXCEPT ![id] =
                  Append(@, [units |-> allowable_release(Task(id)),
                             result |-> "pending",
                             total |-> Task(id).released_total])]

\* what implementation i does between the wait and the delivery.
\* top level: read the status under the read lock, stop if Cancelled or if
\* the id is gone, otherwise run the tick.
\* mod pencall: no status read, the tick runs directly.
after_wait(i, id) ==
    IF i = "top"
      THEN IF id \notin DOMAIN store
             THEN /\ set_task(id, [Task(id) EXCEPT !.pc = "done",
                                                   !.outcome = "Internal"])
                  /\ UNCHANGED events
             ELSE IF store[id].status = Cancelled
               THEN /\ set_task(id, [Task(id) EXCEPT !.pc = "done",
                                                     !.outcome = "Ok"])
                    /\ UNCHANGED events
               ELSE begin_tick(id)
      ELSE begin_tick(id)

\* the top-level scheduler past its wait acquires the read lock
lock_read(id) ==
    /\ impl = "top"
    /\ Running(id, "check")
    /\ lock = Unlocked
    /\ lock' = ReadGuard(id)
    /\ UNCHANGED <<impl, cancelled_at, store, sched, spawned, events,
                   active_writes, last>>

\* the top-level scheduler holding the read lock: the guard is dropped at the
\* end of the block, before the tick is computed
sim_check(id) ==
    /\ impl = "top"
    /\ Running(id, "check")
    /\ lock = ReadGuard(id)
    /\ lock' = drop(lock)
    /\ after_wait("top", id)
    /\ UNCHANGED <<impl, cancelled_at, store, spawned, active_writes, last>>

\* the scheduler of mod pencall past its wait
ns_tick(id) ==
    /\ impl = "ns"
    /\ Running(id, "check")
    /\ after_wait("ns", id)
    /\ UNCHANGED <<impl, cancelled_at, lock, store, spawned, active_writes, last>>

\* a task that has a status to write acquires the write lock
lock_write(id) ==
    /\ Running(id, "complete") \/ Running(id, "write")
    /\ lock = Unlocked
    /\ lock' = WriteGuard(id)
    /\ UNCHANGED <<impl, cancelled_at, store, sched, spawned, events,
                   active_writes, last>>

\* allowable_release == 0: insert Completed and return Ok
sim_complete(id) ==
    /\ Running(id, "complete")
    /\ lock = WriteGuard(id)
    /\ lock' = drop(lock)
    /\ store' = insert(store, id, [req |-> Task(id).req, status |-> Completed])
    /\ set_task(id, [Task(id) EXCEPT !.pc = "done", !.outcome = "Ok"])
    /\ UNCHANGED <<impl, cancelled_at, spawned, events, active_writes, last>>

\* provider.deliver returned Ok: released_total grows by the event's units
deliver_ok(id) ==
    /\ Running(id, "delivering")
    /\ LET n == Len(events[id])
           total == saturating_add(Task(id).released_total, Task(id).units)
       IN /\ set_task(id, [Task(id) EXCEPT !.released_total = total, !.pc = "write"])
          /\ events' = [events EXCEPT ![id][n].result = "ok", ![id][n].total = total]
    /\ UNCHANGED <<impl, cancelled_at, lock, store, spawned, active_writes, last>>

\* (the status records the units of the tick instead of the running total)
tick_status_units(t) == Active(t.units)

\* the status a successful tick records
tick_status(t) == Active(t.released_total)

\* under the write lock: insert Active{released: released_total}; then the
\* next tick is prepared
sim_write(id) ==
    /\ Running(id, "write")
    /\ lock = WriteGuard(id)
    /\ lock' = drop(lock)
    /\ store' = insert(store, id,
           [req |-> Task(id).req, status |-> tick_status(Task(id))])
    /\ active_writes' = [active_writes EXCEPT ![id] =
           Append(@, tick_status(Task(id)).released)]
    /\ set_task(id, advance(Task(id)))
    /\ UNCHANGED <<impl, cancelled_at, spawned, events, last>>

\* (the units of a failed delivery are added to released_total)
after_err_counted(i, t) ==
    IF i = "top"
      THEN [t EXCEPT !.pc = "backoff",
                     !.released_total = saturating_add(t.released_total, t.units)]
      ELSE [t EXCEPT !.pc = "done", !.outcome = "DeliveryError",
                     !.released_total = saturating_add(t.released_total, t.units)]

\* the task of implementation i once provider.deliver has returned Err.
\* Top level: warn and sleep 60 s.  mod pencall: `?` returns the error from
\* the task.
after_err(i, t) ==
    IF i = "top"
      THEN [t EXCEPT !.pc = "backoff"]
      ELSE [t EXCEPT !.pc = "done", !.outcome = "DeliveryError"]

\* provider.deliver returned Err
deliver_err(id) ==
    /\ Running(id, "delivering")
    /\ Failures(id) < MaxFailures
    /\ events' = [events EXCEPT ![id][Len(events[id])].result = "err"]
    /\ set_task(id, after_err(impl, Task(id)))
    /\ UNCHANGED <<impl, cancelled_at, lock, store, spawned, active_writes, last>>

\* top level: the 60 s sleep is over; control falls out of the match into
\* "Prepare next tick"
sim_backoff_done(id) ==
    /\ Running(id, "backoff")
    /\ set_task(id, advance(Task(id)))
    /\ UNCHANGED <<impl, cancelled_at, lock, store, spawned, events, active_writes, last>>

\* ------------------------------------------------------- the environment
\* An external caller sets the status of an active allocation to Cancelled
\* through the store.
cancel(id) ==
    /\ lock = Unlocked
    /\ id \in DOMAIN store
    /\ store[id].status.tag = "Active"
    /\ store' = insert(store, id, [req |-> store[id].req, status |-> Cancelled])
    /\ cancelled_at' = IF id \in DOMAIN cancelled_at THEN cancelled_at
                       ELSE insert(cancelled_at, id, Len(events[id]))
    /\ UNCHANGED <<impl, lock, sched, spawned, events, active_writes, last>>

\* ---------------------------------------------------------- specifications
Orchestrator ==
    \/ \E req \in AllocationRequest, ok \in BOOLEAN : register_allocation(req, ok)
    \/ \E id \in Ids : activate(id)

\* the steps of a scheduler task whose deliveries succeed
Scheduler(id) ==
    \/ sim_sleep(id)
    \/ sim_no_sleep(id)
    \/ sim_wake(id)
    \/ lock_read(id)
    \/ sim_check(id)
    \/ ns_tick(id)
    \/ lock_write(id)
    \/ sim_complete(id)
    \/ deliver_ok(id)
    \/ sim_write(id)

\* a delivery that fails, and what follows it
Failure(id) ==
    \/ deliver_err(id)
    \/ sim_backoff_done(id)

Next ==
    \/ Orchestrator
    \/ \E id \in Ids : Scheduler(id)
    \/ \E id \in Ids : Failure(id)
    \/ \E id \in Ids : cancel(id)

Spec == Init /\ [][Next]_vars

\* The provider always succeeds and nobody cancels.
NextAlwaysOk ==
    \/ Orchestrator
    \/ \E id \in Ids : Scheduler(id)

SpecAlwaysOk == Init /\ [][NextAlwaysOk]_vars

\* The tokio runtime keeps polling a spawned task, a timer fires, the store
\* lock is granted and the provider returns: a scheduler step that stays
\* possible is eventually taken.
FairAlwaysOk == SpecAlwaysOk /\ \A id \in Ids : WF_vars(Scheduler(id))

\* the steps a task takes while it holds the store lock; none of them awaits
Section(id) ==
    \/ sim_check(id)
    \/ sim_complete(id)
    \/ sim_write(id)

\* A task that holds the lock is runnable and the runtime keeps polling it;
\* nothing is assumed of timers, of the provider or of other callers.
FairSections == Spec /\ \A id \in Ids : WF_vars(Section(id))

\* ------------------------------------------------------------ properties
Terminal(status) == status.tag \in {"Completed", "Cancelled"}
CapOrMax(req) == unwrap_or(req.cap_units, U64_MAX)
Ceiling(req) == Min(req.requested_units, CapOrMax(req))
UnitsOf(id) == [i \in 1..Len(events[id]) |-> events[id][i].units]
RECURSIVE Pow2(_)
Pow2(n) == IF n = 0 THEN 1 ELSE 2 * Pow2(n - 1)
\* the k-th delivery was accepted and the status write after it is done
Written(id, k) ==
    /\ events[id][k].result = "ok"
    /\ ~(k = Len(events[id]) /\ sched[id].pc = "write")
RECURSIVE WrittenUnits(_, _)
WrittenUnits(id, k) ==
    IF k = 0 THEN 0
    ELSE WrittenUnits(id, k - 1)
           + (IF Written(id, k) THEN events[id][k].units ELSE 0)
NoneFailed(id) == \A i \in 1..Len(events[id]) : events[id][i].result # "err"

\* C1: once the stored status of an allocation is Completed or Cancelled, no
\* step of any interleaving changes it.
C1_TerminalStatusNeverChanges ==
    [][\A id \in DOMAIN store :
          Terminal(store[id].status) => store'[id].status = store[id].status]_vars

\* C2: whenever the stored status is Active{released}, released is at most
\* min(requested_units, cap_units or the largest word).
C2_ReleasedWithinCeiling ==
    \A id \in DOMAIN store :
        store[id].status.tag = "Active"
            => store[id].status.released <= Ceiling(store[id].req)

\* C3: the released values of the successive Active statuses written for one
\* identifier, by activate and then by the scheduler, never decrease.
C3_ActiveWritesNonDecreasing ==
    \A id \in Ids :
        \A i, j \in 1..Len(active_writes[id]) :
            i <= j => active_writes[id][i] <= active_writes[id][j]

\* C3 witness: after a failed delivery and a cancellation, the scheduler has
\* written growing released values over the one of activate.
C3_Witness ==
    \E id \in DOMAIN store :
        /\ Len(active_writes[id]) >= 3
        /\ active_writes[id][1] < active_writes[id][Len(active_writes[id])]
        /\ ~NoneFailed(id)
        /\ store[id].status = Cancelled

\* C4: with cap_units < requested_units, an always-succeeding provider and no
\* cancellation, no Active status exceeds cap_units and the task ends with the
\* status Completed and released_total = cap_units.
C4_CapReachedExactly ==
    \A id \in DOMAIN sched :
        LET t == sched[id] IN
        (t.req.cap_units.some /\ t.req.cap_units.val < t.req.requested_units)
            => /\ \A i \in 1..Len(active_writes[id]) :
                      active_writes[id][i] <= t.req.cap_units.val
               /\ t.pc = "done"
                      => /\ store[id].status = Completed
                         /\ t.released_total = t.req.cap_units.val

\* C5: with an always-succeeding provider and no cancellation, every activated
\* allocation's task eventually returns Ok with the status Completed.
C5_Termination ==
    \A id \in Ids :
        (id \in DOMAIN sched)
            ~> (/\ id \in DOMAIN sched
                /\ sched[id].pc = "done"
                /\ sched[id].outcome = "Ok"
                /\ store[id].status = Completed)

\* C5 witness: a task has returned after several delivered releases and the
\* status is Completed.
C5_Witness ==
    \E id \in DOMAIN sched :
        /\ sched[id].pc = "done"
        /\ store[id].status = Completed
        /\ Len(events[id]) >= 2
        /\ sched[id].req.requested_units <= MaxUnits

\* C6: when a delivery fails and the next one succeeds, the released_total
\* recorded after the success is the one the failed attempt would have given:
\* the total before it plus the units of the failed event.
C6_RetryDeliversSameUnits ==
    \A id \in Ids :
        \A i \in 1..Len(events[id]) :
            (/\ i < Len(events[id])
             /\ events[id][i].result = "err"
             /\ events[id][i + 1].result = "ok")
                => events[id][i + 1].total = events[id][i].total + events[id][i].units

\* C7: when the status is Cancelled while the task is between two ticks (after
\* the status write of one tick, before the cancellation check of the next),
\* the task issues no delivery call, the status stays Cancelled, and the step
\* that follows the wait ends the task.
C7_CancelBetweenTicksStops ==
    [][\A id \in DOMAIN sched :
          (/\ store[id].status = Cancelled
           /\ sched[id].pc \in {"loop", "sleeping", "check"})
              => /\ events'[id] = events[id]
                 /\ store'[id].status = Cancelled
                 /\ sched'[id].pc \in {"loop", "sleeping", "check", "done"}
                 /\ (sched[id].pc = "check" /\ sched'[id] # sched[id])
                        => sched'[id].pc = "done"]_vars

\* C8: for the request of examples/basic.rs and an always-succeeding provider
\* the delivered units are 1, 2, 4, 8, 1 in this order (16 in all), and the
\* task ends with the status Completed and released_total = 16.
C8_ExampleScenario ==
    \A id \in DOMAIN sched :
        sched[id].req = ExampleRequest(id)
            => /\ Len(events[id]) <= 5
               /\ \A i \in 1..Len(events[id]) : UnitsOf(id)[i] = <<1, 2, 4, 8, 1>>[i]
               /\ sched[id].pc = "done"
                      => /\ UnitsOf(id) = <<1, 2, 4, 8, 1>>
                         /\ sched[id].outcome = "Ok"
                         /\ store[id].status = Completed
                         /\ sched[id].released_total = ExampleUnits

C10_ActivateNonPendingRejected ==
    [][(/\ last' # last
        /\ last'.op = "activate"
        /\ (last'.id \in DOMAIN store => store[last'.id].status.tag # "Pending"))
          => /\ last'.result = "InvalidArgs"
             /\ store' = store
             /\ sched' = sched
             /\ spawned' = spawned]_vars

\* C10 witness: activate was refused for a cancelled allocation whose task had
\* been started by the one successful activate.
C10_Witness ==
    /\ last.op = "activate"
    /\ last.result = "InvalidArgs"
    /\ last.id \in DOMAIN store
    /\ store[last.id].status = Cancelled
    /\ spawned[last.id] = 1

C12_ActivateOnceOneTask ==
    /\ [](\A id \in Ids : spawned[id] <= 1)
    /\ [][/\ (last' # last /\ last'.op = "activate" /\ last'.result = "Ok")
              => /\ last'.id \in DOMAIN store
                 /\ store[last'.id].status = Pending
                 /\ store'[last'.id] =
                        [req |-> store[last'.id].req,
                         status |-> Active(unwrap_or(
                                      store[last'.id].req.initial_release, 0))]
                 /\ spawned'[last'.id] = spawned[last'.id] + 1
                 /\ last'.id \notin DOMAIN sched
                 /\ sched'[last'.id].pc = "loop"
          /\ spawned' # spawned
              => (last' # last /\ last'.op = "activate" /\ last'.result = "Ok")]_vars

\* C12 witness: activate has just succeeded on a request with an
\* initial_release of 2 and the one task of the identifier exists.
C12_Witness ==
    /\ last.op = "activate"
    /\ last.result = "Ok"
    /\ spawned[last.id] = 1
    /\ last.id \in DOMAIN sched
    /\ store[last.id].status = Active(2)
    /\ sched[last.id].pc = "loop"

\* C13: a delivery failure never ends the scheduler task: a task that has
\* returned did so with Ok (Completed written, or Cancelled observed) or with
\* Internal, never with a delivery error, and the step in which a delivery
\* fails leaves the task running.
C13_DeliveryFailureNeverEndsTask ==
    /\ [](\A id \in DOMAIN sched :
             sched[id].pc = "done" => sched[id].outcome \in {"Ok", "Internal"})
    /\ [][\A id \in DOMAIN sched :
             Failures(id)' > Failures(id) => sched'[id].outcome = "running"]_vars

\* C14: the top-level scheduler and the one of mod pencall are the same
\* implementation: from every reachable state, on the same stored status and
\* the same provider outcome, the step of the one is the step of the other
\* (past the wait, and when a delivery fails), so they issue the same delivery
\* calls, write the same statuses and end with the same outcome.
C14_SchedulersAgree ==
    /\ [](\A id \in DOMAIN sched :
             Running(id, "delivering")
                 => after_err("top", Task(id)) = after_err("ns", Task(id)))
    /\ [][\A id \in DOMAIN sched :
             Running(id, "check")
                 => (after_wait("top", id) <=> after_wait("ns", id))]_vars

\* C15: the steps of a failed delivery (the failure and the backoff after it)
\* leave released_total, current_chunk, next_release and the store as they
\* were, and the delivery call after a failed one carries the same units.
C15_FailedDeliveryChangesNothing ==
    /\ [][\A id \in Ids :
             Failure(id)
                 => /\ sched'[id].released_total = sched[id].released_total
                    /\ sched'[id].current_chunk = sched[id].current_chunk
                    /\ sched'[id].next_release = sched[id].next_release
                    /\ store' = store]_vars
    /\ [](\A id \in Ids :
             \A i \in 1..Len(events[id]) :
                 (events[id][i].result = "err" /\ i < Len(events[id]))
                     => events[id][i + 1].units = events[id][i].units)

\* C16: once the status of an allocation has been set to Cancelled, its
\* scheduler issues at most one further delivery call, and the next time it
\* is past its wait it returns instead of running a tick.
C16_BoundedCancellationLag ==
    /\ [](\A id \in DOMAIN cancelled_at :
             Len(events[id]) - cancelled_at[id] <= 1)
    /\ [][\A id \in DOMAIN cancelled_at :
             (Running(id, "check") /\ sched'[id] # sched[id])
                 => sched'[id].pc = "done"]_vars

\* C17: a status becomes Completed only in the scheduler's completion step of
\* a tick whose allowable release is 0, when released_total has reached
\* min(requested_units, cap_units or the largest word); a step in which
\* register_allocation or activate returns never makes a status Completed.
C17_CompletedOnlyWhenExhausted ==
    [][\A id \in DOMAIN store' :
          (/\ store'[id].status = Completed
           /\ (id \notin DOMAIN store \/ store[id].status # Completed))
              => /\ sim_complete(id)
                 /\ allowable_release(sched[id]) = 0
                 /\ sched[id].released_total >= Ceiling(sched[id].req)
                 /\ last' = last]_vars

\* C17 witness: a task stopped by its cap, below requested_units, has written
\* Completed after a delivery.
C17_Witness ==
    \E id \in DOMAIN sched :
        /\ store[id].status = Completed
        /\ sched[id].outcome = "Ok"
        /\ sched[id].cap < sched[id].req.requested_units
        /\ sched[id].released_total = sched[id].cap
        /\ Len(events[id]) >= 1

\* C18: the store lock is held only by a scheduler task that is inside one of
\* its lock sections (never by a task at the top of its loop, asleep, in a
\* delivery call, in the backoff wait or returned, and never by an
\* orchestrator call between two steps), and a held lock is always released,
\* whatever the timers and the provider do, so that register_allocation and
\* activate can acquire it.
C18_NoLockAcrossSuspension ==
    /\ [](lock # Unlocked
             => /\ lock.holder \in DOMAIN sched
                /\ lock.mode = "read" => sched[lock.holder].pc = "check"
                /\ lock.mode = "write"
                      => sched[lock.holder].pc \in {"complete", "write"})
    /\ (lock # Unlocked) ~> (lock = Unlocked)

\* C18 witness: the lock is free while a task is suspended in the backoff wait
\* that follows a failed delivery, after an earlier tick wrote its status
\* under the lock.
C18_Witness ==
    \E id \in DOMAIN sched :
        /\ lock = Unlocked
        /\ sched[id].pc = "backoff"
        /\ Len(active_writes[id]) >= 2

\* C19: with a provider that always succeeds, the k-th delivery call carries
\* min(max(1, initial_release or 1) * 2^(k-1), requested_units - released,
\* cap - released) units, the subtractions clamped at 0 and released being the
\* released_total before the call, and it carries at least one unit.
C19_KthEventUnits ==
    \A id \in DOMAIN sched :
        \A k \in 1..Len(events[id]) :
            LET req == sched[id].req
                base == Max(1, unwrap_or(req.initial_release, 1))
                released == IF k = 1 THEN unwrap_or(req.initial_release, 0)
                            ELSE events[id][k - 1].total
            IN /\ events[id][k].units =
                      Min(Min(base * Pow2(k - 1),
                              saturating_sub(req.requested_units, released)),
                          saturating_sub(CapOrMax(req), released))
               /\ events[id][k].units >= 1

\* C19 witness: the fourth delivery of the example's request has been
\* accepted, with 8 units.
C19_Witness ==
    \E id \in DOMAIN sched :
        /\ Len(events[id]) = 4
        /\ events[id][4].units = 8
        /\ events[id][4].result = "ok"

====
